---------------------------- MODULE Spec2Model ----------------------------
(***************************************************************************)
(* A model of connect-go's server dispatch (Handler.ServeHTTP and the      *)
(* handler constructors, src/handler.go) and of the client-side helper     *)
(* receiveUnaryResponse (connect.go, src/unnamed/part_001).                *)
(*                                                                         *)
(* Strings whose characters matter (Content-Type values) are sequences of  *)
(* one-character strings.  Collaborators reached only through an interface *)
(* (protocolHandler, handlerConnCloser, StreamingClientConn, the user's    *)
(* implementation) are nondeterministic: each call draws its result from a *)
(* small set.                                                              *)
(***************************************************************************)
EXTENDS Integers, Sequences, FiniteSets, TLC

VARIABLES
    handler,         \* the *Handler under test (set by its constructor)
    request,         \* per request: the *http.Request given to ServeHTTP
    responseWriter,  \* per request: what ServeHTTP itself wrote to the http.ResponseWriter
    frame,           \* per request: ServeHTTP's locals and its position
    trace,           \* per request: history of the calls ServeHTTP made to its collaborators
    impl,            \* per request: the implementation's locals, its position and its stream
    conn,            \* client side: the StreamingClientConn given to receiveUnaryResponse
    rur,             \* client side: receiveUnaryResponse's locals and its position
    path,            \* extractProtoPath: its input, its position and its results
    pool             \* bufferPool: the buffers, who holds them and what Get returned

vars == <<handler, request, responseWriter, frame, trace, impl, conn, rur, path, pool>>

handlerVars == <<handler, request, responseWriter, frame, trace>>
implVars == <<impl>>
clientVars == <<conn, rur>>
pathVars == <<path>>
poolVars == <<pool>>

----------------------------------------------------------------------------
(* Bounds and small input sets *)

\* Highest HTTP major version a request carries (0 .. MaxProtoMajor).
MaxProtoMajor == 3

\* Requests served by the handler in one behaviour of Spec.
Reqs == {"r1"}

Methods == {"POST", "GET", "PUT", "DELETE", "PATCH"}

----------------------------------------------------------------------------
(* Strings as character sequences *)

\* The characters Content-Type values are made of, in byte order.
Alphabet == <<"+", "/", ";", "A", "C", "G", "P", "U", "W", "a", "c", "g", "p", "u", "w">>

CharOrd(c) == CHOOSE i \in 1..Len(Alphabet) : Alphabet[i] = c

ToLowerChar(c) ==
    CASE c = "A" -> "a"
      [] c = "C" -> "c"
      [] c = "G" -> "g"
      [] c = "P" -> "p"
      [] c = "U" -> "u"
      [] c = "W" -> "w"
      [] OTHER -> c

ToLower(s) == [i \in 1..Len(s) |-> ToLowerChar(s[i])]

\* Index of the first occurrence of c in s, or 0.
IndexOf(s, c) ==
    IF \E i \in 1..Len(s) : s[i] = c
    THEN CHOOSE i \in 1..Len(s) : s[i] = c /\ \A j \in 1..(i - 1) : s[j] # c
    ELSE 0

\* Strict lexicographic order on character sequences (byte-wise, as sort.Strings).
LexLess(a, b) ==
    \E k \in 1..Len(b) :
        /\ k - 1 <= Len(a)
        /\ \A j \in 1..(k - 1) : a[j] = b[j]
        /\ \/ Len(a) = k - 1
           \/ CharOrd(a[k]) < CharOrd(b[k])

RECURSIVE SortedSeq(_)
SortedSeq(S) ==
    IF S = {} THEN <<>>
    ELSE LET m == CHOOSE x \in S : \A y \in S \ {x} : LexLess(x, y)
         IN <<m>> \o SortedSeq(S \ {m})

RECURSIVE Join(_, _)
Join(ss, sep) ==
    IF Len(ss) = 0 THEN <<>>
    ELSE IF Len(ss) = 1 THEN ss[1]
    ELSE ss[1] \o sep \o Join(Tail(ss), sep)

----------------------------------------------------------------------------
(* Stream types: two bits, "client streams" and "server streams" *)

StreamTypeUnary == 0
StreamTypeClient == 1
StreamTypeServer == 2

\* Bitwise and / or on the two low bits of a uint8.
BitAnd(a, b) ==
    (IF (a % 2 = 1) /\ (b % 2 = 1) THEN 1 ELSE 0)
    + (IF ((a \div 2) % 2 = 1) /\ ((b \div 2) % 2 = 1) THEN 2 ELSE 0)

BitOr(a, b) ==
    (IF (a % 2 = 1) \/ (b % 2 = 1) THEN 1 ELSE 0)
    + (IF ((a \div 2) % 2 = 1) \/ ((b \div 2) % 2 = 1) THEN 2 ELSE 0)

StreamTypeBidi == BitOr(StreamTypeClient, StreamTypeServer)

StreamTypes == {StreamTypeUnary, StreamTypeClient, StreamTypeServer, StreamTypeBidi}

----------------------------------------------------------------------------
(* net/http constants used by ServeHTTP *)

StatusHTTPVersionNotSupported == 505
StatusMethodNotAllowed == 405
StatusUnsupportedMediaType == 415
MethodPost == "POST"

----------------------------------------------------------------------------
(* Content types *)

\* canonicalizeContentType: lowercase the media type and subtype (everything
\* before the first ";"), keep the parameters as they are.
canonicalizeContentType(ct) ==
    LET semi == IndexOf(ct, ";")
    IN IF semi = 0
       THEN ToLower(ct)
       ELSE ToLower(SubSeq(ct, 1, semi - 1)) \o SubSeq(ct, semi, Len(ct))

ctConnect == <<"a", "/", "c">>
ctConnectParam == <<"a", "/", "c", ";", "p">>
ctGRPC == <<"a", "/", "g">>
ctGRPCProto == <<"a", "/", "g", "+", "p">>
ctGRPCWeb == <<"a", "/", "w">>

\* The content types each protocol's handler advertises.  ContentTypes() is an
\* interface method; two tables are modelled, one where the protocols' sets are
\* disjoint and one where they overlap.
ContentTypeTables ==
    { [connect |-> {ctConnect, ctConnectParam},
       grpc    |-> {ctGRPC, ctGRPCProto},
       grpcweb |-> {ctGRPCWeb}],
      [connect |-> {ctConnect},
       grpc    |-> {ctGRPC, ctGRPCWeb},
       grpcweb |-> {ctGRPCWeb, ctGRPCProto, ctConnect}] }

\* Content-Type header values a client may send ("" is <<>>).
RawContentTypes ==
    { <<>>,
      ctConnect,
      <<"A", "/", "C">>,
      <<"A", "/", "c", ";", "p">>,
      <<"A", "/", "C", ";", "P">>,
      ctGRPC,
      <<"a", "/", "G", "+", "P">>,
      ctGRPCWeb,
      <<"A", "/", "W">>,
      <<"a", "/", "u">> }

----------------------------------------------------------------------------
(* Handler construction *)

\* newHandlerConfig followed by the options: HandleGRPC and HandleGRPCWeb
\* default to true and an option may clear either.
HandlerConfigs ==
    [HandleGRPC : BOOLEAN, HandleGRPCWeb : BOOLEAN, ContentTypes : ContentTypeTables,
     Interceptor : BOOLEAN]

newSpec(streamType) == [StreamType |-> streamType]

\* protocol.NewHandler(params)
NewHandler(protocol, c, streamType) ==
    [protocol |-> protocol,
     Spec |-> newSpec(streamType),
     contentTypes |-> c.ContentTypes[protocol]]

newProtocolHandlers(c, streamType) ==
    LET protocols == <<"connect">>
                     \o (IF c.HandleGRPC THEN <<"grpc">> ELSE <<>>)
                     \o (IF c.HandleGRPCWeb THEN <<"grpcweb">> ELSE <<>>)
    IN [i \in 1..Len(protocols) |-> NewHandler(protocols[i], c, streamType)]

ContentTypes(protocolHandler) == protocolHandler.contentTypes

\* sortedAcceptPostValue: every advertised content type, sorted, joined by ", ".
sortedAcceptPostValue(protocolHandlers) ==
    Join(SortedSeq(UNION {ContentTypes(protocolHandlers[i]) :
                              i \in 1..Len(protocolHandlers)}),
         <<",", " ">>)

\* NewUnaryHandler, NewClientStreamHandler, NewServerStreamHandler and
\* NewBidiStreamHandler: they differ in the stream type and the implementation.
NewHandlerOfType(streamType, c) ==
    LET protocolHandlers == newProtocolHandlers(c, streamType)
    IN [spec |-> newSpec(streamType),
        implementation |-> [kind |-> streamType, interceptor |-> c.Interceptor],
        protocolHandlers |-> protocolHandlers,
        acceptPost |-> sortedAcceptPostValue(protocolHandlers)]

----------------------------------------------------------------------------
(* Handler.ServeHTTP *)

\* ContentType is the Content-Type header, which ServeHTTP overwrites; sent
\* keeps the value the client sent.
NoRequest ==
    [Method |-> "", ProtoMajor |-> 0, ContentType |-> <<>>, ctx |-> "nil", sent |-> <<>>]

NoResponse == [Allow |-> "", AcceptPost |-> <<>>, status |-> <<>>, acceptPostSet |-> FALSE]

NoFrame ==
    [pc |-> "idle", contentType |-> <<>>, protocolHandler |-> 0, ctx |-> "nil",
     cancel |-> "nil", timeoutErr |-> "nil", deferred |-> <<>>,
     connCloser |-> "nil", implResult |-> "nil", panic |-> "nil"]

\* One call in the history: who was called (adapter: index in
\* h.protocolHandlers, 0 for none), the context and Content-Type it was given,
\* its argument and what it returned (retCtx, retCancel: SetTimeout's context
\* and cancel handle).
Event(op, adapter, ctx, ct, arg, ret) ==
    [op |-> op, adapter |-> adapter, ctx |-> ctx, ct |-> ct, arg |-> arg, ret |-> ret,
     retCtx |-> "nil", retCancel |-> "nil"]

\* What SetTimeout may return: (ctx, cancel, err).  On a parse error the
\* context may be nil or a derived one, and a cancel handle may or may not
\* come with it.
SetTimeoutResults ==
    { [ctx |-> c, cancel |-> k, err |-> "nil"] :
          c \in {"reqCtx", "derivedCtx"}, k \in {"nil", "cancel"} }
    \cup
    { [ctx |-> c, cancel |-> k, err |-> "errTimeout"] :
          c \in {"nil", "derivedCtx"}, k \in {"nil", "cancel"} }

\* What the streaming implementation may return, and what Close may return.
ImplementationResults == {"nil", "errUser"}
CloseResults == {"nil", "errClose"}

\* isBidi with "any streaming bit set" in place of "both bits set"
isBidi_AnyStreaming(h) == BitAnd(h.spec.StreamType, StreamTypeBidi) # 0

isBidi(h) == BitAnd(h.spec.StreamType, StreamTypeBidi) = StreamTypeBidi

\* the loop without its break: the last matching handler wins
findProtocolHandler_Last(protocolHandlers, contentType, i) ==
    LET matches == {j \in i..Len(protocolHandlers) :
                        contentType \in protocolHandlers[j].contentTypes}
    IN IF matches = {} THEN 0
       ELSE CHOOSE j \in matches : \A k \in matches : k <= j

\* The loop over h.protocolHandlers: index of the first handler (from i on)
\* whose ContentTypes() contains contentType, 0 (nil) if there is none.
RECURSIVE findProtocolHandler(_, _, _)
findProtocolHandler(protocolHandlers, contentType, i) ==
    IF i > Len(protocolHandlers) THEN 0
    ELSE IF contentType \in ContentTypes(protocolHandlers[i]) THEN i
    ELSE findProtocolHandler(protocolHandlers, contentType, i + 1)

\* the derived context is kept even when the timeout failed to parse
contextForConn_KeepDerived(req, ctx, timeoutErr) == ctx

\* ctx after "if timeoutErr != nil { ctx = request.Context() }"
contextForConn(req, ctx, timeoutErr) ==
    IF timeoutErr # "nil" THEN req.ctx ELSE ctx

\* "if cancel != nil { defer cancel() }"
deferCancel(cancel) == IF cancel # "nil" THEN <<"cancel">> ELSE <<>>

\* The server calls h.ServeHTTP(responseWriter, request).
ServeHTTP(r) ==
    /\ frame[r].pc = "idle"
    /\ \E m \in Methods, v \in 0..MaxProtoMajor, ct \in RawContentTypes :
        request' = [request EXCEPT ![r] =
            [Method |-> m, ProtoMajor |-> v, ContentType |-> ct, ctx |-> "reqCtx",
             sent |-> ct]]
    /\ frame' = [frame EXCEPT ![r].pc = "gate"]
    /\ UNCHANGED <<handler, responseWriter, trace, implVars, clientVars, pathVars, poolVars>>

versionNotSupported(h, req) == isBidi(h) /\ req.ProtoMajor < 2

\* only GET is turned away
methodNotAllowed_GetOnly(req) == req.Method = "GET"

methodNotAllowed(req) == req.Method # MethodPost

\* isBidi && request.ProtoMajor < 2: 505
Reject505(r) ==
    /\ frame[r].pc = "gate"
    /\ versionNotSupported(handler, request[r])
    /\ responseWriter' = [responseWriter EXCEPT
           ![r].status = Append(@, StatusHTTPVersionNotSupported)]
    /\ frame' = [frame EXCEPT ![r].pc = "done"]
    /\ UNCHANGED <<handler, request, trace, implVars, clientVars, pathVars, poolVars>>

\* request.Method != http.MethodPost: 405 with Allow: POST
Reject405(r) ==
    /\ frame[r].pc = "gate"
    /\ ~versionNotSupported(handler, request[r])
    /\ methodNotAllowed(request[r])
    /\ responseWriter' = [responseWriter EXCEPT
           ![r].Allow = MethodPost,
           ![r].status = Append(@, StatusMethodNotAllowed)]
    /\ frame' = [frame EXCEPT ![r].pc = "done"]
    /\ UNCHANGED <<handler, request, trace, implVars, clientVars, pathVars, poolVars>>

\* protocolHandler == nil: 415 with Accept-Post
Reject415(r) ==
    LET contentType == canonicalizeContentType(request[r].ContentType)
    IN /\ frame[r].pc = "gate"
       /\ ~versionNotSupported(handler, request[r])
       /\ ~methodNotAllowed(request[r])
       /\ findProtocolHandler(handler.protocolHandlers, contentType, 1) = 0
       /\ responseWriter' = [responseWriter EXCEPT
              ![r].AcceptPost = handler.acceptPost,
              ![r].acceptPostSet = TRUE,
              ![r].status = Append(@, StatusUnsupportedMediaType)]
       /\ frame' = [frame EXCEPT ![r].pc = "done", ![r].contentType = contentType]
       /\ UNCHANGED <<handler, request, trace, implVars, clientVars, pathVars, poolVars>>

\* the selected protocol handler is moved to the front of h.protocolHandlers
handlerAfterSelect_MoveToFront(h, found) ==
    [h EXCEPT !.protocolHandlers =
        <<h.protocolHandlers[found]>>
        \o SelectSeq(h.protocolHandlers, LAMBDA ph : ph # h.protocolHandlers[found])]

\* The Handler after the loop over h.protocolHandlers: the loop only reads it.
handlerAfterSelect(h, found) == h

\* the request keeps the Content-Type the client sent
setContentType_KeepsSent(req, contentType) == req

\* request.Header.Set("Content-Type", contentType)
setContentType(req, contentType) == [req EXCEPT !.ContentType = contentType]

\* A protocol handler was found: request.Header.Set("Content-Type", contentType)
SelectProtocol(r) ==
    LET contentType == canonicalizeContentType(request[r].ContentType)
        found == findProtocolHandler(handler.protocolHandlers, contentType, 1)
    IN /\ frame[r].pc = "gate"
       /\ ~versionNotSupported(handler, request[r])
       /\ ~methodNotAllowed(request[r])
       /\ found # 0
       /\ request' = [request EXCEPT ![r] = setContentType(@, contentType)]
       /\ frame' = [frame EXCEPT ![r].pc = "SetTimeout",
                                 ![r].contentType = contentType,
                                 ![r].protocolHandler = found]
       /\ handler' = handlerAfterSelect(handler, found)
       /\ UNCHANGED <<responseWriter, trace, implVars, clientVars, pathVars, poolVars>>

\* ctx, cancel, timeoutErr := protocolHandler.SetTimeout(request)
CallSetTimeout(r) ==
    /\ frame[r].pc = "SetTimeout"
    /\ \E res \in SetTimeoutResults :
        /\ trace' = [trace EXCEPT ![r] = Append(@,
               [Event("SetTimeout", frame[r].protocolHandler, request[r].ctx,
                      request[r].ContentType, "request", res.err)
                   EXCEPT !.retCtx = res.ctx, !.retCancel = res.cancel])]
        /\ frame' = [frame EXCEPT
               ![r].pc = "NewConn",
               ![r].ctx = contextForConn(request[r], res.ctx, res.err),
               ![r].cancel = res.cancel,
               ![r].timeoutErr = res.err,
               ![r].deferred = deferCancel(res.cancel)]
    /\ UNCHANGED <<handler, request, responseWriter, implVars, clientVars, pathVars, poolVars>>

\* the timeout error is looked at before ok
afterNewConn_TimeoutErrFirst(ok, timeoutErr) ==
    IF timeoutErr # "nil" THEN "closeTimeoutErr"
    ELSE IF ~ok THEN "return"
    ELSE "implementation"

\* Where ServeHTTP goes after NewConn returned (connCloser, ok).
afterNewConn(ok, timeoutErr) ==
    IF ~ok THEN "return"
    ELSE IF timeoutErr # "nil" THEN "closeTimeoutErr"
    ELSE "implementation"

\* connCloser, ok := protocolHandler.NewConn(responseWriter, request.WithContext(ctx))
CallNewConn(r) ==
    /\ frame[r].pc = "NewConn"
    /\ \E ok \in BOOLEAN :
        /\ trace' = [trace EXCEPT ![r] = Append(@,
               Event("NewConn", frame[r].protocolHandler, frame[r].ctx,
                     request[r].ContentType, "request",
                     IF ok THEN "ok" ELSE "not ok"))]
        /\ frame' = [frame EXCEPT
               ![r].pc = afterNewConn(ok, frame[r].timeoutErr),
               ![r].connCloser = IF ok THEN "stream" ELSE "nil"]
    /\ UNCHANGED <<handler, request, responseWriter, implVars, clientVars, pathVars, poolVars>>

\* _ = connCloser.Close(timeoutErr); return
CloseWithTimeoutErr(r) ==
    /\ frame[r].pc = "closeTimeoutErr"
    /\ \E ret \in CloseResults :
        trace' = [trace EXCEPT ![r] = Append(@,
            Event("Close", frame[r].protocolHandler, "nil", <<>>,
                  frame[r].timeoutErr, ret))]
    /\ frame' = [frame EXCEPT ![r].pc = "return"]
    /\ UNCHANGED <<handler, request, responseWriter, implVars, clientVars, pathVars, poolVars>>

\* h.implementation(ctx, connCloser) is entered
CallImplementation(r) ==
    /\ frame[r].pc = "implementation"
    /\ trace' = [trace EXCEPT ![r] = Append(@,
           Event("implementation", 0, frame[r].ctx, <<>>, frame[r].connCloser, "nil"))]
    /\ frame' = [frame EXCEPT ![r].pc = "inImplementation"]
    /\ UNCHANGED <<handler, request, responseWriter, implVars, clientVars, pathVars, poolVars>>

\* h.implementation returns nil or an error
ImplementationReturns(r) ==
    /\ frame[r].pc = "inImplementation"
    /\ \E res \in ImplementationResults :
        /\ trace' = [trace EXCEPT ![r] = Append(@,
               Event("implementationReturn", 0, "nil", <<>>, "nil", res))]
        /\ frame' = [frame EXCEPT ![r].pc = "closeImplementation", ![r].implResult = res]
    /\ UNCHANGED <<handler, request, responseWriter, implVars, clientVars, pathVars, poolVars>>

\* h.implementation panics: ServeHTTP has no recover, so the panic unwinds it
ImplementationPanics(r) ==
    /\ frame[r].pc = "inImplementation"
    /\ frame' = [frame EXCEPT ![r].pc = "return", ![r].panic = "panic"]
    /\ UNCHANGED <<handler, request, responseWriter, trace, implVars, clientVars, pathVars, poolVars>>

\* the stream is closed with nil whatever h.implementation returned
CloseWithImplementationResult_DropsError(r) ==
    /\ frame[r].pc = "closeImplementation"
    /\ \E ret \in CloseResults :
        trace' = [trace EXCEPT ![r] = Append(@,
            Event("Close", frame[r].protocolHandler, "nil", <<>>, "nil", ret))]
    /\ frame' = [frame EXCEPT ![r].pc = "return"]
    /\ UNCHANGED <<handler, request, responseWriter, implVars, clientVars, pathVars, poolVars>>

\* _ = connCloser.Close(<what h.implementation returned>)
CloseWithImplementationResult(r) ==
    /\ frame[r].pc = "closeImplementation"
    /\ \E ret \in CloseResults :
        trace' = [trace EXCEPT ![r] = Append(@,
            Event("Close", frame[r].protocolHandler, "nil", <<>>,
                  frame[r].implResult, ret))]
    /\ frame' = [frame EXCEPT ![r].pc = "return"]
    /\ UNCHANGED <<handler, request, responseWriter, implVars, clientVars, pathVars, poolVars>>

\* cancel is called at the end of the function instead of being deferred:
\* a panic skips it
Return_NoDeferOnPanic(r) ==
    /\ frame[r].pc = "return"
    /\ trace' = [trace EXCEPT ![r] =
           IF frame[r].panic # "nil" THEN @
           ELSE @ \o [i \in 1..Len(frame[r].deferred) |->
                         Event(frame[r].deferred[i], 0, "nil", <<>>, "nil", "nil")]]
    /\ frame' = [frame EXCEPT
           ![r].pc = IF frame[r].panic # "nil" THEN "panicked" ELSE "done",
           ![r].deferred = <<>>]
    /\ UNCHANGED <<handler, request, responseWriter, implVars, clientVars, pathVars, poolVars>>

\* ServeHTTP exits (by return or by panic): the deferred calls run
Return(r) ==
    /\ frame[r].pc = "return"
    /\ trace' = [trace EXCEPT ![r] =
           @ \o [i \in 1..Len(frame[r].deferred) |->
                    Event(frame[r].deferred[i], 0, "nil", <<>>, "nil", "nil")]]
    /\ frame' = [frame EXCEPT
           ![r].pc = IF frame[r].panic # "nil" THEN "panicked" ELSE "done",
           ![r].deferred = <<>>]
    /\ UNCHANGED <<handler, request, responseWriter, implVars, clientVars, pathVars, poolVars>>

----------------------------------------------------------------------------
(* The handler specification *)

\* No client call is modelled in the handler specification.
ClientIdle ==
    /\ conn = <<>>
    /\ rur = <<>>

\* Nor are extractProtoPath and the buffer pool.
PathIdle == path = <<>>

PoolIdle == pool = <<>>

\* The stream NewConn returns: its response header and trailer maps, whether
\* the first Send has committed the headers, the headers that went out with
\* it, and the messages sent.
NewStream ==
    [responseHeader |-> {"content-type"}, responseTrailer |-> {},
     committed |-> FALSE, wireHeader |-> {}, sent |-> <<>>]

\* The implementation has not been entered.  ctxDone: the context is
\* cancelled; userOps: stream calls the user's function has made;
\* substituted: the interceptor passed on another request envelope.
NoImpl ==
    [pc |-> "idle", ctxDone |-> FALSE, userOps |-> 0, substituted |-> FALSE,
     response |-> [isNil |-> TRUE, Msg |-> "zero", header |-> {}, trailer |-> {}],
     stream |-> NewStream]

ImplIdle == impl = [r \in Reqs |-> NoImpl]

Init ==
    /\ \E st \in StreamTypes, c \in HandlerConfigs : handler = NewHandlerOfType(st, c)
    /\ request = [r \in Reqs |-> NoRequest]
    /\ responseWriter = [r \in Reqs |-> NoResponse]
    /\ frame = [r \in Reqs |-> NoFrame]
    /\ trace = [r \in Reqs |-> <<>>]
    /\ ImplIdle
    /\ ClientIdle
    /\ PathIdle
    /\ PoolIdle

Next ==
    \E r \in Reqs :
        \/ ServeHTTP(r)
        \/ Reject505(r)
        \/ Reject405(r)
        \/ Reject415(r)
        \/ SelectProtocol(r)
        \/ CallSetTimeout(r)
        \/ CallNewConn(r)
        \/ CloseWithTimeoutErr(r)
        \/ CallImplementation(r)
        \/ ImplementationReturns(r)
        \/ ImplementationPanics(r)
        \/ CloseWithImplementationResult(r)
        \/ Return(r)

Spec == Init /\ [][Next]_vars

----------------------------------------------------------------------------
(* Errors *)

\* An error value: its code ("none" for a plain Go error), its message and the
\* error it wraps (a sequence of length 0 or 1).
NilError == [code |-> "nil", msg |-> "", wraps |-> <<>>]

\* errors.New(msg)
errorsNew(msg) == [code |-> "none", msg |-> msg, wraps |-> <<>>]

\* io.EOF
EOF == errorsNew("EOF")

CodeUnknown == "unknown"
CodeUnavailable == "unavailable"

\* NewError(code, underlying): the message is the underlying error's, and
\* Unwrap gives the underlying error back.
NewError(code, underlying) ==
    [code |-> code, msg |-> underlying.msg, wraps |-> <<underlying>>]

\* errors.Is(err, target): err or an error in its Unwrap chain is target.
RECURSIVE errorsIs(_, _)
errorsIs(err, target) ==
    \/ err = target
    \/ (err.wraps # <<>> /\ errorsIs(err.wraps[1], target))

----------------------------------------------------------------------------
(* receiveUnaryResponse over a StreamingClientConn *)

\* Receive calls the connection has a scripted answer for.
MaxReceives == 3

Messages == {"m1", "m2"}

\* What one Receive may do: fill the message and return nil, or return an
\* error: io.EOF, an error wrapping io.EOF, or another error.
ReceiveResults ==
    { [msg |-> m, err |-> NilError] : m \in Messages }
    \cup
    { [msg |-> "zero", err |-> e] :
          e \in {EOF, NewError(CodeUnknown, EOF),
                 NewError(CodeUnavailable, errorsNew("connection reset"))} }

\* The connection: its scripted Receive results, the trailers the server
\* sends after the last message, what ResponseHeader() and ResponseTrailer()
\* hold now, and the calls made on it so far.
Conns ==
    { [script |-> sc, wireTrailer |-> t, header |-> {}, trailer |-> {}, calls |-> <<>>] :
          sc \in [1..MaxReceives -> ReceiveResults], t \in {{}, {"grpc-status"}} }

NilResponse == [isNil |-> TRUE, Msg |-> "zero", header |-> {}, trailer |-> {}]

NoCall == [pc |-> "idle", msg |-> "zero", response |-> NilResponse, err |-> NilError]

NumReceives(c) == Cardinality({i \in 1..Len(c.calls) : c.calls[i] = "Receive"})

\* conn.Receive(&msg): the next scripted result.  The first answer brings the
\* response headers, an error ends the stream and brings the trailers.
connReceive(c) ==
    LET n == NumReceives(c) + 1
        res == c.script[n]
    IN [c EXCEPT !.calls = Append(@, "Receive"),
                 !.header = {"content-type"},
                 !.trailer = IF res.err # NilError THEN c.wireTrailer ELSE @]

receiveResult(c) == c.script[NumReceives(c) + 1]

\* receiveUnaryResponse(conn) is called
CallReceiveUnaryResponse ==
    /\ rur.pc = "idle"
    /\ rur' = [rur EXCEPT !.pc = "first"]
    /\ UNCHANGED <<conn, handlerVars, implVars, pathVars, poolVars>>

\* the first Receive's error is wrapped instead of returned as it is
ReceiveFirst_WrapsError ==
    /\ rur.pc = "first"
    /\ NumReceives(conn) < MaxReceives
    /\ conn' = connReceive(conn)
    /\ LET res == receiveResult(conn)
       IN rur' = IF res.err # NilError
                 THEN [rur EXCEPT !.pc = "done", !.response = NilResponse,
                                  !.err = NewError(CodeUnknown, res.err)]
                 ELSE [rur EXCEPT !.pc = "second", !.msg = res.msg]
    /\ UNCHANGED <<handlerVars, implVars, pathVars, poolVars>>

\* var msg T; if err := conn.Receive(&msg); err != nil { return nil, err }
ReceiveFirst ==
    /\ rur.pc = "first"
    /\ NumReceives(conn) < MaxReceives
    /\ conn' = connReceive(conn)
    /\ LET res == receiveResult(conn)
       IN rur' = IF res.err # NilError
                 THEN [rur EXCEPT !.pc = "done", !.response = NilResponse, !.err = res.err]
                 ELSE [rur EXCEPT !.pc = "second", !.msg = res.msg]
    /\ UNCHANGED <<handlerVars, implVars, pathVars, poolVars>>

\* a second message is ignored like the end of the stream
afterSecondReceive_IgnoresExtraMessage(err) ==
    IF err # NilError /\ ~errorsIs(err, EOF)
    THEN [return |-> TRUE, err |-> NewError(CodeUnknown, err)]
    ELSE [return |-> FALSE, err |-> NilError]

\* What the second Receive's error decides: return an error, or fall through
\* to build the Response.
afterSecondReceive(err) ==
    IF err = NilError
    THEN [return |-> TRUE,
          err |-> NewError(CodeUnknown, errorsNew("unary stream has multiple messages"))]
    ELSE IF err # NilError /\ ~errorsIs(err, EOF)
    THEN [return |-> TRUE, err |-> NewError(CodeUnknown, err)]
    ELSE [return |-> FALSE, err |-> NilError]

\* the Response is built right after the first message, without draining
ReceiveSecond_NoDrain ==
    /\ rur.pc = "second"
    /\ rur' = [rur EXCEPT !.pc = "build"]
    /\ UNCHANGED <<conn, handlerVars, implVars, pathVars, poolVars>>

\* if err := conn.Receive(new(T)); ...
ReceiveSecond ==
    /\ rur.pc = "second"
    /\ NumReceives(conn) < MaxReceives
    /\ conn' = connReceive(conn)
    /\ LET after == afterSecondReceive(receiveResult(conn).err)
       IN rur' = IF after.return
                 THEN [rur EXCEPT !.pc = "done", !.response = NilResponse, !.err = after.err]
                 ELSE [rur EXCEPT !.pc = "build"]
    /\ UNCHANGED <<handlerVars, implVars, pathVars, poolVars>>

\* return &Response[T]{Msg: &msg, header: conn.ResponseHeader(),
\*                     trailer: conn.ResponseTrailer()}, nil
BuildResponse ==
    /\ rur.pc = "build"
    /\ conn' = [conn EXCEPT !.calls = @ \o <<"ResponseHeader", "ResponseTrailer">>]
    /\ rur' = [rur EXCEPT
           !.pc = "done",
           !.response = [isNil |-> FALSE, Msg |-> rur.msg,
                         header |-> conn.header, trailer |-> conn.trailer],
           !.err = NilError]
    /\ UNCHANGED <<handlerVars, implVars, pathVars, poolVars>>

----------------------------------------------------------------------------
(* The client specification *)

InitClient ==
    /\ handler = NewHandlerOfType(StreamTypeUnary,
           [HandleGRPC |-> TRUE, HandleGRPCWeb |-> TRUE, Interceptor |-> FALSE,
            ContentTypes |-> CHOOSE t \in ContentTypeTables : ctGRPCWeb \notin t.grpc])
    /\ request = [r \in Reqs |-> NoRequest]
    /\ responseWriter = [r \in Reqs |-> NoResponse]
    /\ frame = [r \in Reqs |-> NoFrame]
    /\ trace = [r \in Reqs |-> <<>>]
    /\ ImplIdle
    /\ conn \in Conns
    /\ rur = NoCall
    /\ PathIdle
    /\ PoolIdle

NextClient ==
    \/ CallReceiveUnaryResponse
    \/ ReceiveFirst
    \/ ReceiveSecond
    \/ BuildResponse

SpecClient == InitClient /\ [][NextClient]_vars

\* A few requests, for the specifications whose subject is not the request:
\* two methods, two HTTP versions, a gRPC-Web and an unsupported Content-Type.
ConcRequests ==
    [Method : {"POST", "GET"}, ProtoMajor : {1, 2},
     ContentType : {<<"A", "/", "W">>, <<"a", "/", "u">>},
     ctx : {"reqCtx"}, sent : {<<"A", "/", "W">>, <<"a", "/", "u">>}]

\* net/http calls h.ServeHTTP with one of those requests.
ConcServeHTTP(r) ==
    /\ ServeHTTP(r)
    /\ request'[r] \in ConcRequests
    /\ request'[r].sent = request'[r].ContentType

----------------------------------------------------------------------------
(* The implementations the constructors build (NewUnaryHandler,            *)
(* NewClientStreamHandler, NewServerStreamHandler, NewBidiStreamHandler)   *)

\* Stream calls the user's streaming function makes at most.
MaxUserOps == 2

\* What conn.Receive and conn.Send may return.
ReceiveErrors == {"nil", "errEOF", "errReceive"}
SendErrors == {"nil", "errSend"}

\* What an interceptor's wrapper may do: call the wrapped function and return
\* what it returns, return an error of its own without calling it, or (unary
\* only) answer with a response of its own without calling it, or call it with
\* another request envelope.
StreamInterceptorBehaviours == {"pass", "reject"}
UnaryInterceptorBehaviours == {"pass", "reject", "respond", "substitute"}

\* The response of an interceptor that answers itself.
InterceptorResponse == [isNil |-> FALSE, Msg |-> "res", header |-> {"x-interceptor"}, trailer |-> {}]

\* A *Response the user's function returns.
UserResponses ==
    { [isNil |-> FALSE, Msg |-> "res", header |-> {}, trailer |-> {}],
      [isNil |-> FALSE, Msg |-> "res", header |-> {"x-header"}, trailer |-> {"x-trailer"}] }

NilUserResponse == [isNil |-> TRUE, Msg |-> "zero", header |-> {}, trailer |-> {}]

\* (response, err) of the user's unary or client-streaming function: a
\* response, an error, both, or neither.
UnaryResults ==
    { [response |-> resp, err |-> e] : resp \in UserResponses, e \in {"nil", "errUser"} }
    \cup { [response |-> NilUserResponse, err |-> "errUser"],
           [response |-> NilUserResponse, err |-> "nil"] }

\* The stream types whose implementation starts with conn.Receive(&msg).
receivesFirst(kind) == kind \in {StreamTypeUnary, StreamTypeServer}

\* A call of the implementation or of the user's function in the history;
\* ctx records whether the context was cancelled at that moment.
ImplEvent(op, who, ctxDone, ret) ==
    Event(op, 0, IF ctxDone THEN "done" ELSE "live", <<>>, who, ret)

ImplEvents(calls, who, ctxDone) ==
    [i \in 1..Len(calls) |-> ImplEvent(calls[i][1], who, ctxDone, calls[i][2])]

\* The implementation goes on: its calls are added to the history.
implContinues(r, events, newImpl) ==
    /\ trace' = [trace EXCEPT ![r] = @ \o events]
    /\ impl' = [impl EXCEPT ![r] = newImpl]
    /\ UNCHANGED frame

\* The implementation returns err to ServeHTTP.
implReturns(r, events, err, newImpl) ==
    /\ trace' = [trace EXCEPT ![r] =
           @ \o events \o <<Event("implementationReturn", 0, "nil", <<>>, "nil", err)>>]
    /\ impl' = [impl EXCEPT ![r] = [newImpl EXCEPT !.pc = "returned"]]
    /\ frame' = [frame EXCEPT ![r].pc = "closeImplementation", ![r].implResult = err]

\* The implementation panics: the panic unwinds ServeHTTP.
implPanics(r, events, newImpl) ==
    /\ trace' = [trace EXCEPT ![r] = @ \o events]
    /\ impl' = [impl EXCEPT ![r] = [newImpl EXCEPT !.pc = "panicked"]]
    /\ frame' = [frame EXCEPT ![r].pc = "return", ![r].panic = "panic"]

\* The request's context is cancelled while the implementation runs.
CtxCancelled(r) ==
    /\ frame[r].pc = "inImplementation"
    /\ ~impl[r].ctxDone
    /\ impl' = [impl EXCEPT ![r].ctxDone = TRUE]
    /\ UNCHANGED <<handler, request, responseWriter, frame, trace,
                   clientVars, pathVars, poolVars>>

\* h.implementation is entered.  For the streaming handlers with an
\* interceptor it is ic.WrapStreamingHandler(implementation): the wrapper runs
\* first.  Unary and server-streaming implementations go on to Receive, the
\* others call the user's function.
ImplStart(r) ==
    LET kind == handler.implementation.kind
        wrapped == kind # StreamTypeUnary /\ handler.implementation.interceptor
        next == IF receivesFirst(kind) THEN "receive" ELSE "user"
        userCall == IF receivesFirst(kind) THEN <<>>
                    ELSE <<ImplEvent("userCall", "implementation", impl[r].ctxDone, "nil")>>
    IN /\ frame[r].pc = "inImplementation"
       /\ impl[r].pc = "idle"
       /\ \E b \in StreamInterceptorBehaviours :
             LET wrapper == IF wrapped
                            THEN <<ImplEvent("WrapStreamingHandler", "interceptor",
                                             impl[r].ctxDone, b)>>
                            ELSE <<>>
             IN IF wrapped /\ b = "reject"
                THEN implReturns(r, wrapper, "errInterceptor", impl[r])
                ELSE implContinues(r, wrapper \o userCall, [impl[r] EXCEPT !.pc = next])
       /\ UNCHANGED <<handler, request, responseWriter, clientVars, pathVars, poolVars>>

\* the error of Receive is dropped
afterReceive_IgnoresError(err) == "call"

\* if err := conn.Receive(&msg); err != nil { return err }
afterReceive(err) == IF err # "nil" THEN "return" ELSE "call"

\* var msg Req; conn.Receive(&msg) in the unary and server-streaming
\* implementations; the server-streaming one then calls the user's function.
ImplReceive(r) ==
    LET kind == handler.implementation.kind
    IN /\ frame[r].pc = "inImplementation"
       /\ impl[r].pc = "receive"
       /\ \E err \in ReceiveErrors :
             LET receive == <<ImplEvent("Receive", "implementation", impl[r].ctxDone, err)>>
             IN IF afterReceive(err) = "return"
                THEN implReturns(r, receive, err, impl[r])
                ELSE IF kind = StreamTypeUnary
                THEN implContinues(r, receive, [impl[r] EXCEPT !.pc = "untyped"])
                ELSE implContinues(r,
                         receive \o <<ImplEvent("userCall", "implementation",
                                                impl[r].ctxDone, "nil")>>,
                         [impl[r] EXCEPT !.pc = "user"])
       /\ UNCHANGED <<handler, request, responseWriter, clientVars, pathVars, poolVars>>

\* untyped = interceptor.WrapUnary(untyped): what the wrapper does when it is
\* called, before the function it wraps runs.  next: where control goes
\* ("return": the wrapper returns err itself, "merge": it returns a response
\* of its own, "ctxErr": the wrapped function is entered).
wrapUnary(interceptor, behaviour) ==
    LET wrapper == IF interceptor THEN << <<"WrapUnary", behaviour>> >> ELSE <<>>
    IN IF interceptor /\ behaviour = "reject"
       THEN [calls |-> wrapper, next |-> "return",
             response |-> NilUserResponse, err |-> "errInterceptor"]
       ELSE IF interceptor /\ behaviour = "respond"
       THEN [calls |-> wrapper, next |-> "merge",
             response |-> InterceptorResponse, err |-> "nil"]
       ELSE [calls |-> wrapper, next |-> "ctxErr",
             response |-> NilUserResponse, err |-> "nil"]

\* the context is not looked at
ctxErr_Skipped(ctxDone) == "nil"

\* ctx.Err()
ctxErr(ctxDone) == IF ctxDone THEN "errCtx" ELSE "nil"

\* typed, ok := request.(*Request[Req]): fails with an Internal error when the
\* interceptor passed another envelope.
typeAssertion(substituted) == IF substituted THEN "errInternal" ELSE "nil"

\* the response is sent whatever the error
untypedFailed_Never(err) == FALSE

\* if err != nil { return err }
untypedFailed(err) == err # "nil"

\* response, err := untyped(ctx, request) in the unary implementation: the
\* interceptor's wrapper, when one is configured, is entered.
CallUntyped(r) ==
    /\ frame[r].pc = "inImplementation"
    /\ impl[r].pc = "untyped"
    /\ \E b \in UnaryInterceptorBehaviours :
          LET w == wrapUnary(handler.implementation.interceptor, b)
              events == ImplEvents(w.calls, "implementation", impl[r].ctxDone)
          IN IF w.next = "return"
             THEN implReturns(r, events, w.err, impl[r])
             ELSE implContinues(r, events,
                      [impl[r] EXCEPT
                          !.pc = w.next,
                          !.response = w.response,
                          !.substituted = handler.implementation.interceptor
                                             /\ b = "substitute"])
    /\ UNCHANGED <<handler, request, responseWriter, clientVars, pathVars, poolVars>>

\* The function NewUnaryHandler builds is entered: ctx.Err() and the type
\* assertion; an error of either is what untyped, and with it the
\* implementation, returns.
CheckCtxErr(r) ==
    LET err == ctxErr(impl[r].ctxDone)
        asserted == typeAssertion(impl[r].substituted)
        check == ImplEvent("ctx.Err", "implementation", impl[r].ctxDone, err)
        assertion == ImplEvent("typeAssertion", "implementation", impl[r].ctxDone, asserted)
    IN /\ frame[r].pc = "inImplementation"
       /\ impl[r].pc = "ctxErr"
       /\ IF err # "nil"
          THEN implReturns(r, <<check>>, err, impl[r])
          ELSE IF asserted # "nil"
          THEN implReturns(r, <<check, assertion>>, asserted, impl[r])
          ELSE implContinues(r, <<check, assertion>>, [impl[r] EXCEPT !.pc = "unary"])
       /\ UNCHANGED <<handler, request, responseWriter, clientVars, pathVars, poolVars>>

\* return unary(ctx, typed): the user's unary function runs and returns.
CallUnary(r) ==
    /\ frame[r].pc = "inImplementation"
    /\ impl[r].pc = "unary"
    /\ \E result \in UnaryResults :
          LET call == <<ImplEvent("unary", "implementation", impl[r].ctxDone, result.err)>>
          IN IF untypedFailed(result.err)
             THEN implReturns(r, call, result.err, impl[r])
             ELSE implContinues(r, call,
                      [impl[r] EXCEPT !.pc = "merge", !.response = result.response])
    /\ UNCHANGED <<handler, request, responseWriter, clientVars, pathVars, poolVars>>

\* mergeHeaders(into, from)
mergeHeaders(into, from) == into \cup from

\* conn.Send(msg) returning err: the first Send commits the response headers.
streamSend(stream, msg, err) ==
    IF err # "nil" THEN stream
    ELSE [stream EXCEPT
             !.sent = Append(@, msg),
             !.committed = TRUE,
             !.wireHeader = IF stream.committed THEN @ ELSE stream.responseHeader]

\* the payload is sent before the headers and trailers are merged
mergeAndSend_SendFirst(stream, response, err) ==
    LET sent == streamSend(stream, response.Msg, err)
    IN [stream |-> [sent EXCEPT
                       !.responseHeader = mergeHeaders(@, response.header),
                       !.responseTrailer = mergeHeaders(@, response.trailer)],
        calls |-> << <<"Send", err>>, <<"mergeHeaders", "header">>,
                     <<"mergeHeaders", "trailer">> >>]

\* mergeHeaders(conn.ResponseHeader(), response.Header())
\* mergeHeaders(conn.ResponseTrailer(), response.Trailer())
\* return conn.Send(response.Any())
mergeAndSend(stream, response, err) ==
    LET merged == [stream EXCEPT
                      !.responseHeader = mergeHeaders(@, response.header),
                      !.responseTrailer = mergeHeaders(@, response.trailer)]
    IN [stream |-> streamSend(merged, response.Msg, err),
        calls |-> << <<"mergeHeaders", "header">>, <<"mergeHeaders", "trailer">>,
                     <<"Send", err>> >>]

\* The end of the unary and client-streaming implementations.  A nil
\* *Response is dereferenced by response.Header() (res.header): a panic.
MergeAndSend(r) ==
    /\ frame[r].pc = "inImplementation"
    /\ impl[r].pc = "merge"
    /\ IF impl[r].response.isNil
       THEN implPanics(r, <<>>, impl[r])
       ELSE \E err \in SendErrors :
               LET ms == mergeAndSend(impl[r].stream, impl[r].response, err)
               IN implReturns(r, ImplEvents(ms.calls, "implementation", impl[r].ctxDone),
                              err, [impl[r] EXCEPT !.stream = ms.stream])
    /\ UNCHANGED <<handler, request, responseWriter, clientVars, pathVars, poolVars>>

\* The user's streaming function calls its stream: Receive on a ClientStream
\* or BidiStream, Send on a ServerStream or BidiStream.
UserStreamOp(r) ==
    LET kind == handler.implementation.kind
    IN /\ frame[r].pc = "inImplementation"
       /\ impl[r].pc = "user"
       /\ impl[r].userOps < MaxUserOps
       /\ \/ /\ kind \in {StreamTypeClient, StreamTypeBidi}
             /\ \E err \in ReceiveErrors :
                   implContinues(r, <<ImplEvent("Receive", "user", impl[r].ctxDone, err)>>,
                                 [impl[r] EXCEPT !.userOps = @ + 1])
          \/ /\ kind \in {StreamTypeServer, StreamTypeBidi}
             /\ \E err \in SendErrors :
                   implContinues(r, <<ImplEvent("Send", "user", impl[r].ctxDone, err)>>,
                                 [impl[r] EXCEPT
                                     !.userOps = @ + 1,
                                     !.stream = streamSend(@, "res", err)])
       /\ UNCHANGED <<handler, request, responseWriter, clientVars, pathVars, poolVars>>

\* The user's streaming function returns: (res, err) to the client-streaming
\* implementation, err to the others, which return it.
UserReturns(r) ==
    LET kind == handler.implementation.kind
    IN /\ frame[r].pc = "inImplementation"
       /\ impl[r].pc = "user"
       /\ IF kind = StreamTypeClient
          THEN \E result \in UnaryResults :
                  LET return == <<ImplEvent("userReturn", "user", impl[r].ctxDone, result.err)>>
                  IN IF untypedFailed(result.err)
                     THEN implReturns(r, return, result.err, impl[r])
                     ELSE implContinues(r, return,
                              [impl[r] EXCEPT !.pc = "merge", !.response = result.response])
          ELSE \E err \in ImplementationResults :
                  implReturns(r, <<ImplEvent("userReturn", "user", impl[r].ctxDone, err)>>,
                              err, impl[r])
       /\ UNCHANGED <<handler, request, responseWriter, clientVars, pathVars, poolVars>>

\* Handlers as the default options build them, with or without an interceptor.
ImplHandlerConfigs ==
    {c \in HandlerConfigs :
        c.HandleGRPC /\ c.HandleGRPCWeb /\ ctGRPCWeb \notin c.ContentTypes.grpc}

InitImpl ==
    /\ \E st \in StreamTypes, c \in ImplHandlerConfigs : handler = NewHandlerOfType(st, c)
    /\ request = [r \in Reqs |-> NoRequest]
    /\ responseWriter = [r \in Reqs |-> NoResponse]
    /\ frame = [r \in Reqs |-> NoFrame]
    /\ trace = [r \in Reqs |-> <<>>]
    /\ ImplIdle
    /\ ClientIdle
    /\ PathIdle
    /\ PoolIdle

NextImpl ==
    \E r \in Reqs :
        \/ ConcServeHTTP(r)
        \/ Reject505(r)
        \/ Reject405(r)
        \/ Reject415(r)
        \/ SelectProtocol(r)
        \/ CallSetTimeout(r)
        \/ CallNewConn(r)
        \/ CloseWithTimeoutErr(r)
        \/ CallImplementation(r)
        \/ CtxCancelled(r)
        \/ ImplStart(r)
        \/ ImplReceive(r)
        \/ CallUntyped(r)
        \/ CheckCtxErr(r)
        \/ CallUnary(r)
        \/ MergeAndSend(r)
        \/ UserStreamOp(r)
        \/ UserReturns(r)
        \/ CloseWithImplementationResult(r)
        \/ Return(r)

SpecImpl == InitImpl /\ [][NextImpl]_vars

----------------------------------------------------------------------------
(* Concurrent ServeHTTP calls on one Handler *)

\* Two requests in flight at once, each in its own goroutine.
ConcReqs == {"r1", "r2"}

\* Unary and bidi handlers with every protocol enabled.
ConcHandlerConfigs == {c \in HandlerConfigs : c.HandleGRPC /\ c.HandleGRPCWeb /\ ~c.Interceptor}

InitConc ==
    /\ \E st \in {StreamTypeUnary, StreamTypeBidi}, c \in ConcHandlerConfigs :
          handler = NewHandlerOfType(st, c)
    /\ request = [r \in ConcReqs |-> NoRequest]
    /\ responseWriter = [r \in ConcReqs |-> NoResponse]
    /\ frame = [r \in ConcReqs |-> NoFrame]
    /\ trace = [r \in ConcReqs |-> <<>>]
    /\ ImplIdle
    /\ ClientIdle
    /\ PathIdle
    /\ PoolIdle

\* Any interleaving of the steps of the two calls.
NextConc ==
    \E r \in ConcReqs :
        \/ ConcServeHTTP(r)
        \/ Reject505(r)
        \/ Reject405(r)
        \/ Reject415(r)
        \/ SelectProtocol(r)
        \/ CallSetTimeout(r)
        \/ CallNewConn(r)
        \/ CloseWithTimeoutErr(r)
        \/ CallImplementation(r)
        \/ ImplementationReturns(r)
        \/ ImplementationPanics(r)
        \/ CloseWithImplementationResult(r)
        \/ Return(r)

SpecConc == InitConc /\ [][NextConc]_vars

----------------------------------------------------------------------------
(* extractProtoPath *)

\* Longest procedure string given to extractProtoPath.
MaxPathLen == 4

PathChars == {"/", "a", "b"}

\* Every string over PathChars of length 0 .. MaxPathLen.
Paths == UNION {[1..n -> PathChars] : n \in 0..MaxPathLen}

\* strings.Split(s, "/"): the pieces between the slashes, empty ones included;
\* a string without a slash (the empty string too) gives one piece.
RECURSIVE stringsSplit(_)
stringsSplit(s) ==
    LET i == IndexOf(s, "/")
    IN IF i = 0 THEN <<s>>
       ELSE <<SubSeq(s, 1, i - 1)>> \o stringsSplit(SubSeq(s, i + 1, Len(s)))

extractProtoPath(url) ==
    LET segments == stringsSplit(url)
        segmentsLen == Len(segments)
    IN CASE segmentsLen > 1 ->
               <<"/">> \o segments[segmentsLen - 1] \o <<"/">> \o segments[segmentsLen]
         [] segmentsLen = 1 -> <<"/">> \o segments[1]
         [] OTHER -> <<"/">>

\* extractProtoPath(procedure), as newHandlerConfig calls it
ExtractProtoPath ==
    /\ path.pc = "input"
    /\ path' = [path EXCEPT !.pc = "once", !.once = extractProtoPath(path.url)]
    /\ UNCHANGED <<handlerVars, implVars, clientVars, poolVars>>

\* the result is used as a procedure again (Spec.Procedure, the mux path)
ExtractProtoPathAgain ==
    /\ path.pc = "once"
    /\ path' = [path EXCEPT !.pc = "twice", !.twice = extractProtoPath(path.once)]
    /\ UNCHANGED <<handlerVars, implVars, clientVars, poolVars>>

\* The handler as the default options build it (no request is served in the
\* specifications of the helpers).
DefaultHandler ==
    NewHandlerOfType(StreamTypeUnary,
        [HandleGRPC |-> TRUE, HandleGRPCWeb |-> TRUE, Interceptor |-> FALSE,
         ContentTypes |-> CHOOSE t \in ContentTypeTables : ctGRPCWeb \notin t.grpc])

HandlerIdle ==
    /\ handler = DefaultHandler
    /\ request = [r \in Reqs |-> NoRequest]
    /\ responseWriter = [r \in Reqs |-> NoResponse]
    /\ frame = [r \in Reqs |-> NoFrame]
    /\ trace = [r \in Reqs |-> <<>>]
    /\ ImplIdle

InitPath ==
    /\ HandlerIdle
    /\ ClientIdle
    /\ PoolIdle
    /\ \E u \in Paths : path = [pc |-> "input", url |-> u, once |-> <<>>, twice |-> <<>>]

NextPath ==
    \/ ExtractProtoPath
    \/ ExtractProtoPathAgain

SpecPath == InitPath /\ [][NextPath]_vars

----------------------------------------------------------------------------
(* bufferPool *)

initialBufferSize == 512
maxRecycleBufferSize == 8388608

\* Buffers that exist in one behaviour.
MaxBuffers == 2

\* Capacities and content lengths a caller's buffer may have.
BufferCaps == {100, initialBufferSize, maxRecycleBufferSize, maxRecycleBufferSize + 1}
BufferLens == {0, 64}

\* A buffer that does not exist yet.  where: "none", "held" (a caller has it),
\* "pooled" (in the sync.Pool), "dropped" (nobody has it).  putCap is its
\* capacity at its last Put, 0 if it was never Put.
NoBuffer == [where |-> "none", cap |-> 0, len |-> 0, putCap |-> 0]

\* What the last Get returned (id 0: no Get yet); fresh: made by New.
NoGet == [id |-> 0, cap |-> 0, len |-> 0, fresh |-> FALSE, putCap |-> 0]

\* The smallest buffer id not in use, 0 if there is none.
freeBuffer(bufs) ==
    IF \E i \in 1..MaxBuffers : bufs[i].where = "none"
    THEN CHOOSE i \in 1..MaxBuffers :
             bufs[i].where = "none" /\ \A j \in 1..(i - 1) : bufs[j].where # "none"
    ELSE 0

\* sync.Pool's New: bytes.NewBuffer(make([]byte, 0, initialBufferSize))
newBuffer == [where |-> "held", cap |-> initialBufferSize, len |-> 0, putCap |-> 0]

\* bufferPool.Get: sync.Pool hands out any buffer it holds, or calls New (it
\* may do so even when it holds buffers).
Get ==
    \/ \E i \in 1..MaxBuffers :
          /\ pool.bufs[i].where = "pooled"
          /\ pool' = [pool EXCEPT
                 !.bufs[i].where = "held",
                 !.lastGet = [id |-> i, cap |-> pool.bufs[i].cap, len |-> pool.bufs[i].len,
                              fresh |-> FALSE, putCap |-> pool.bufs[i].putCap]]
    \/ LET i == freeBuffer(pool.bufs)
       IN /\ i # 0
          /\ pool' = [pool EXCEPT
                 !.bufs[i] = newBuffer,
                 !.lastGet = [id |-> i, cap |-> newBuffer.cap, len |-> newBuffer.len,
                              fresh |-> TRUE, putCap |-> 0]]

\* A caller makes a buffer of its own, of any capacity and content.
CallerNewBuffer ==
    LET i == freeBuffer(pool.bufs)
    IN /\ i # 0
       /\ \E c \in BufferCaps, n \in BufferLens :
             pool' = [pool EXCEPT
                 !.bufs[i] = [where |-> "held", cap |-> c, len |-> n, putCap |-> 0]]

\* A caller writes to a buffer it holds: the content changes and the
\* capacity may grow.
CallerWrite ==
    \E i \in 1..MaxBuffers :
        /\ pool.bufs[i].where = "held"
        /\ \E c \in BufferCaps, n \in BufferLens :
              /\ c >= pool.bufs[i].cap
              /\ <<c, n>> # <<pool.bufs[i].cap, pool.bufs[i].len>>
              /\ pool' = [pool EXCEPT !.bufs[i].cap = c, !.bufs[i].len = n]

\* the content length is compared in place of the capacity
tooLargeToRecycle_ByLen(buffer) == buffer.len > maxRecycleBufferSize

\* buffer.Cap() > maxRecycleBufferSize
tooLargeToRecycle(buffer) == buffer.cap > maxRecycleBufferSize

\* the buffer goes back as it is
bufferReset_Skipped(buffer) == buffer

\* buffer.Reset()
bufferReset(buffer) == [buffer EXCEPT !.len = 0]

\* bufferPool.Put(buffer) on a buffer the caller holds
Put ==
    \E i \in 1..MaxBuffers :
        /\ pool.bufs[i].where = "held"
        /\ pool' = [pool EXCEPT !.bufs[i] =
               IF tooLargeToRecycle(pool.bufs[i])
               THEN [pool.bufs[i] EXCEPT !.where = "dropped", !.putCap = pool.bufs[i].cap]
               ELSE [bufferReset(pool.bufs[i]) EXCEPT
                        !.where = "pooled", !.putCap = pool.bufs[i].cap]]

\* sync.Pool lets go of a buffer it holds (it may at any time).
PoolDiscards ==
    \E i \in 1..MaxBuffers :
        /\ pool.bufs[i].where = "pooled"
        /\ pool' = [pool EXCEPT !.bufs[i].where = "dropped"]

\* newBufferPool()
InitPool ==
    /\ HandlerIdle
    /\ ClientIdle
    /\ PathIdle
    /\ pool = [bufs |-> [i \in 1..MaxBuffers |-> NoBuffer], lastGet |-> NoGet]

NextPool ==
    /\ \/ Get
       \/ CallerNewBuffer
       \/ CallerWrite
       \/ Put
       \/ PoolDiscards
    /\ UNCHANGED <<handlerVars, implVars, clientVars, pathVars>>

SpecPool == InitPool /\ [][NextPool]_vars

----------------------------------------------------------------------------
(* Properties of Handler.ServeHTTP *)

Exited(r) == frame[r].pc \in {"done", "panicked"}

\* Positions in a history of the calls of one operation.
Calls(tr, op) == {i \in 1..Len(tr) : tr[i].op = op}

NumCalls(tr, op) == Cardinality(Calls(tr, op))

\* NewConn has returned ok = true for this request.
StreamConstructed(r) == frame[r].connCloser = "stream"

\* NewConn has returned ok = false for this request.
NewConnRefused(r) == \E i \in Calls(trace[r], "NewConn") : trace[r][i].ret = "not ok"

\* SetTimeout has returned a parse error / a cancel handle for this request.
TimeoutErrCaptured(r) ==
    \E i \in Calls(trace[r], "SetTimeout") : trace[r][i].ret # "nil"

CancelReturned(r) ==
    \E i \in Calls(trace[r], "SetTimeout") : trace[r][i].retCancel # "nil"

\* ServeHTTP itself wrote nothing to the response writer.
WroteNothing(r) == responseWriter[r] = NoResponse

\* C1: once NewConn has returned ok = true, the stream's Close has been called
\* exactly once by the time ServeHTTP exits, on every terminal path, the
\* implementation's panic included.
C1_CloseOnceOnEveryPath ==
    \A r \in Reqs :
        (Exited(r) /\ StreamConstructed(r)) => NumCalls(trace[r], "Close") = 1

\* C2: with no timeout-parse error and a constructed stream, the implementation
\* is called exactly once, with the context SetTimeout returned and the stream
\* NewConn returned; every Close comes after the implementation's return and
\* carries the value it returned; and whatever Close returns, ServeHTTP just
\* returns: it writes nothing and calls nothing but the deferred cancel.
C2_ImplementationOnceThenClose ==
    \A r \in Reqs :
        LET tr == trace[r]
        IN (StreamConstructed(r) /\ ~TimeoutErrCaptured(r)
              /\ frame[r].pc \notin {"implementation"}) =>
            /\ NumCalls(tr, "implementation") = 1
            /\ \A i \in Calls(tr, "implementation") :
                  /\ tr[i].arg = "stream"
                  /\ \E j \in Calls(tr, "SetTimeout") : tr[i].ctx = tr[j].retCtx
            /\ NumCalls(tr, "implementationReturn") <= 1
            /\ \A i \in Calls(tr, "Close") :
                  /\ i > 1
                  /\ tr[i - 1].op = "implementationReturn"
                  /\ tr[i].arg = tr[i - 1].ret
                  /\ \A k \in (i + 1)..Len(tr) : tr[k].op = "cancel"
                  /\ frame[r].pc \in {"return", "done"}
                  /\ WroteNothing(r)
            /\ (frame[r].pc = "done") => NumCalls(tr, "Close") = 1

C2_Witness ==
    \E r \in Reqs :
        /\ frame[r].pc = "done"
        /\ StreamConstructed(r)
        /\ ~TimeoutErrCaptured(r)
        /\ \E i \in Calls(trace[r], "Close") :
              trace[r][i].arg = "errUser" /\ trace[r][i].ret = "errClose"

\* C3: when SetTimeout returned a parse error, the implementation is never
\* called, NewConn is given the request bound to the request's own context
\* (not the one SetTimeout returned), and a constructed stream is closed with
\* exactly that parse error.
C3_TimeoutErrSkipsImplementation ==
    \A r \in Reqs :
        LET tr == trace[r]
        IN TimeoutErrCaptured(r) =>
            /\ NumCalls(tr, "implementation") = 0
            /\ \A i \in Calls(tr, "NewConn") : tr[i].ctx = request[r].ctx
            /\ Exited(r) => NumCalls(tr, "NewConn") = 1
            /\ (Exited(r) /\ StreamConstructed(r)) =>
                  /\ NumCalls(tr, "Close") = 1
                  /\ \A i \in Calls(tr, "Close"), j \in Calls(tr, "SetTimeout") :
                        tr[i].arg = tr[j].ret

C3_Witness ==
    \E r \in Reqs :
        /\ Exited(r)
        /\ StreamConstructed(r)
        /\ \E j \in Calls(trace[r], "SetTimeout") :
              /\ trace[r][j].ret = "errTimeout"
              /\ trace[r][j].retCtx = "derivedCtx"
        /\ \E i \in Calls(trace[r], "Close") : trace[r][i].arg = "errTimeout"

\* C4 as stated: whatever the handler's stream type and the HTTP version, a
\* request whose method is not POST is answered 405 with Allow: POST, and
\* nothing is called that could read the body.
C4_NonPostAlways405 ==
    \A r \in Reqs :
        (Exited(r) /\ request[r].Method # "POST") =>
            /\ responseWriter[r].status = <<405>>
            /\ responseWriter[r].Allow = "POST"
            /\ trace[r] = <<>>

\* C4 amended: a request whose method is not POST is answered 405 with
\* Allow: POST, except on a bidi handler when the HTTP major version is below
\* 2, where the answer is 505 without an Allow header; either way no adapter,
\* stream or implementation is called.
C4_NonPost405Unless505 ==
    \A r \in Reqs :
        (Exited(r) /\ request[r].Method # "POST") =>
            /\ trace[r] = <<>>
            /\ frame[r].pc = "done"
            /\ ~responseWriter[r].acceptPostSet
            /\ IF handler.spec.StreamType = 3 /\ request[r].ProtoMajor < 2
               THEN responseWriter[r].status = <<505>> /\ responseWriter[r].Allow = ""
               ELSE responseWriter[r].status = <<405>> /\ responseWriter[r].Allow = "POST"

C4_Witness ==
    \E r \in Reqs :
        /\ Exited(r)
        /\ request[r].Method = "DELETE"
        /\ handler.spec.StreamType = 3
        /\ request[r].ProtoMajor = 2
        /\ responseWriter[r].status = <<405>>

\* C5: ServeHTTP answers 505 exactly when the handler's stream type has both
\* the client-streams and the server-streams bit and the request's HTTP major
\* version is below 2, whatever the method and the Content-Type.
C5_505IffBidiBelowHTTP2 ==
    \A r \in Reqs :
        LET st == handler.spec.StreamType
            bothBits == (st % 2 = 1) /\ ((st \div 2) % 2 = 1)
        IN Exited(r) =>
            /\ (505 \in {responseWriter[r].status[i] :
                            i \in 1..Len(responseWriter[r].status)})
                  <=> (bothBits /\ request[r].ProtoMajor < 2)
            /\ (bothBits /\ request[r].ProtoMajor < 2) =>
                  /\ responseWriter[r].status = <<505>>
                  /\ trace[r] = <<>>

C5_Witness ==
    \E r \in Reqs :
        /\ Exited(r)
        /\ handler.spec.StreamType = 3
        /\ request[r].ProtoMajor = 1
        /\ request[r].Method = "GET"
        /\ request[r].sent = <<"a", "/", "u">>
        /\ responseWriter[r].status = <<505>>

\* The protocol names in the order ServeHTTP walks them.
ProtocolOrder == <<"connect", "grpc", "grpcweb">>

\* C6: for a POST request that passed the version gate, the adapter every
\* later call goes to is the first in the handler's list (Connect, gRPC,
\* gRPC-Web, the last two when enabled) whose content types contain the
\* canonical Content-Type; the answer is 415 exactly when no adapter's set
\* contains it, and then Accept-Post is the handler's precomputed value and
\* neither SetTimeout nor NewConn is called.
C6_FirstMatchingAdapterOr415 ==
    \A r \in Reqs :
        LET phs == handler.protocolHandlers
            ct == canonicalizeContentType(request[r].sent)
            matches == {i \in 1..Len(phs) : ct \in phs[i].contentTypes}
            passed == frame[r].pc \notin {"idle", "gate"}
                      /\ request[r].Method = "POST"
                      /\ ~(handler.spec.StreamType = 3 /\ request[r].ProtoMajor < 2)
        IN /\ \A i, j \in 1..Len(phs) :
                 i < j => \E a, b \in 1..3 :
                     /\ a < b
                     /\ ProtocolOrder[a] = phs[i].protocol
                     /\ ProtocolOrder[b] = phs[j].protocol
           /\ phs[1].protocol = "connect"
           /\ passed =>
                /\ (matches = {}) <=> (responseWriter[r].status = <<415>>)
                /\ (matches = {}) =>
                      /\ responseWriter[r].acceptPostSet
                      /\ responseWriter[r].AcceptPost = handler.acceptPost
                      /\ trace[r] = <<>>
                      /\ frame[r].pc = "done"
                /\ (matches # {}) =>
                      /\ responseWriter[r].status = <<>>
                      /\ frame[r].protocolHandler \in matches
                      /\ \A k \in matches : frame[r].protocolHandler <= k
                      /\ \A e \in Calls(trace[r], "SetTimeout") \cup Calls(trace[r], "NewConn")
                               \cup Calls(trace[r], "Close") :
                            trace[r][e].adapter = frame[r].protocolHandler

C6_Witness ==
    \E r \in Reqs :
        LET phs == handler.protocolHandlers
            ct == canonicalizeContentType(request[r].sent)
        IN /\ Exited(r)
           /\ request[r].sent # ct
           /\ Cardinality({i \in 1..Len(phs) : ct \in phs[i].contentTypes}) = 2
           /\ NumCalls(trace[r], "NewConn") = 1

\* C7: when NewConn returned ok = false, ServeHTTP exits without calling the
\* implementation or Close and without writing a status or header itself,
\* whether or not a timeout-parse error was captured.
C7_RefusedConnNothingFurther ==
    \A r \in Reqs :
        NewConnRefused(r) =>
            /\ NumCalls(trace[r], "implementation") = 0
            /\ NumCalls(trace[r], "Close") = 0
            /\ WroteNothing(r)
            /\ frame[r].pc \in {"return", "done"}
            /\ \A i \in Calls(trace[r], "NewConn") :
                  \A k \in (i + 1)..Len(trace[r]) : trace[r][k].op = "cancel"

C7_Witness ==
    \E r \in Reqs :
        /\ frame[r].pc = "done"
        /\ NewConnRefused(r)
        /\ TimeoutErrCaptured(r)

\* C8: when SetTimeout returned a cancel handle, it has been called exactly
\* once when ServeHTTP exits, by return or by panic, and never before Close:
\* it is the last call of the request.
C8_CancelOnceOnExitAfterClose ==
    \A r \in Reqs :
        LET tr == trace[r]
        IN /\ CancelReturned(r) =>
                /\ NumCalls(tr, "cancel") <= 1
                /\ Exited(r) => NumCalls(tr, "cancel") = 1
                /\ \A i \in Calls(tr, "cancel") : i = Len(tr) /\ Exited(r)
           /\ \A i \in Calls(tr, "cancel"), j \in Calls(tr, "Close") : j < i

C8_Witness ==
    \E r \in Reqs :
        /\ frame[r].pc = "panicked"
        /\ NumCalls(trace[r], "cancel") = 1
        /\ TimeoutErrCaptured(r) = FALSE

----------------------------------------------------------------------------
(* Properties of receiveUnaryResponse *)

\* C9: on a connection whose first two Receive calls both succeed,
\* receiveUnaryResponse returns no Response and an error with code Unknown and
\* message "unary stream has multiple messages", and Receive is never called a
\* third time.
C9_TwoMessagesIsUnknownError ==
    (conn.script[1].err = NilError /\ conn.script[2].err = NilError) =>
        /\ NumReceives(conn) <= 2
        /\ rur.pc \notin {"build"}
        /\ (rur.pc = "done") =>
              /\ rur.response = NilResponse
              /\ rur.err.code = "unknown"
              /\ rur.err.msg = "unary stream has multiple messages"
              /\ conn.calls = <<"Receive", "Receive">>

C9_Witness ==
    /\ rur.pc = "done"
    /\ conn.script[1].err = NilError
    /\ conn.script[2].err = NilError
    /\ conn.script[3].err = NilError
    /\ rur.err.code = "unknown"

\* C10: when the first Receive returns a non-nil error, io.EOF included,
\* receiveUnaryResponse returns that very error and no Response, and calls
\* neither Receive again nor ResponseHeader or ResponseTrailer.
C10_FirstReceiveErrorUnchanged ==
    (conn.script[1].err # NilError /\ rur.pc # "idle") =>
        /\ rur.pc \in {"first", "done"}
        /\ (rur.pc = "first") => conn.calls = <<>>
        /\ (rur.pc = "done") =>
              /\ rur.err = conn.script[1].err
              /\ rur.response = NilResponse
              /\ conn.calls = <<"Receive">>

C10_Witness ==
    /\ rur.pc = "done"
    /\ conn.script[1].err = [code |-> "none", msg |-> "EOF", wraps |-> <<>>]
    /\ conn.script[2].err = NilError
    /\ rur.err = conn.script[1].err

\* C11: receiveUnaryResponse returns a Response only when the first Receive
\* succeeded and the second returned end-of-stream (io.EOF or an error
\* wrapping it), and always then; exactly two Receive calls were made, the
\* Response carries the first message, ResponseHeader and ResponseTrailer are
\* read after the second Receive, and the trailers the connection received
\* while draining are in the Response.
C11_ResponseOnlyAfterDrainToEOF ==
    LET firstOk == conn.script[1].err = NilError
        secondEOF == conn.script[2].err # NilError /\ errorsIs(conn.script[2].err, EOF)
    IN /\ (rur.response # NilResponse) =>
             /\ rur.pc = "done"
             /\ firstOk /\ secondEOF
             /\ rur.err = NilError
             /\ conn.calls = <<"Receive", "Receive", "ResponseHeader", "ResponseTrailer">>
             /\ rur.response.Msg = conn.script[1].msg
             /\ rur.response.header = conn.header
             /\ rur.response.trailer = conn.wireTrailer
       /\ (rur.pc = "done" /\ firstOk /\ secondEOF) => ~rur.response.isNil
       /\ (rur.pc = "build") => conn.calls = <<"Receive", "Receive">>

C11_Witness ==
    /\ rur.pc = "done"
    /\ ~rur.response.isNil
    /\ rur.response.Msg = "m2"
    /\ rur.response.trailer = {"grpc-status"}
    /\ conn.script[2].err = NewError(CodeUnknown, EOF)
    /\ conn.script[3].err = NilError

----------------------------------------------------------------------------
(* Properties of extractProtoPath *)

\* C12: normalization is idempotent: for every input s,
\* extractProtoPath(extractProtoPath(s)) = extractProtoPath(s).
C12_ExtractProtoPathIdempotent ==
    (path.pc = "twice") => path.twice = path.once

\* The non-empty pieces of a slash-delimited string, in order.
NonEmptySegments(s) == SelectSeq(stringsSplit(s), LAMBDA seg : seg # <<>>)

\* "/seg1/seg2" of the last two non-empty segments, "/segment" when there is
\* one, "/" when there is none.
TrailingTwoSegments(s) ==
    LET segs == NonEmptySegments(s)
        n == Len(segs)
    IN IF n >= 2 THEN <<"/">> \o segs[n - 1] \o <<"/">> \o segs[n]
       ELSE IF n = 1 THEN <<"/">> \o segs[1]
       ELSE <<"/">>

\* C13: for every input, extractProtoPath returns a string that starts with a
\* slash and is made of the last two non-empty segments of the input
\* ("/segment" for one, "/" for none), so it never holds an empty segment: no
\* "//" and no slash at its end after a segment.
C13_TrailingTwoNonEmptySegments ==
    (path.pc # "input") =>
        /\ path.once = TrailingTwoSegments(path.url)
        /\ path.once[1] = "/"
        /\ \A i \in 1..(Len(path.once) - 1) :
              ~(path.once[i] = "/" /\ path.once[i + 1] = "/")
        /\ (Len(path.once) > 1) => path.once[Len(path.once)] # "/"

----------------------------------------------------------------------------
(* Properties of bufferPool *)

\* C14: a buffer whose capacity exceeded maxRecycleBufferSize (8 MiB) when it
\* was Put is never returned by a later Get, nor kept by the pool; what Get
\* returns from the pool was Put with a capacity of at most 8 MiB.
C14_OversizedNeverRecycled ==
    /\ \A i \in 1..MaxBuffers :
          (pool.bufs[i].putCap > 8388608) => pool.bufs[i].where = "dropped"
    /\ (pool.lastGet.id # 0 /\ ~pool.lastGet.fresh) =>
          /\ pool.lastGet.putCap <= 8388608
          /\ pool.lastGet.cap <= 8388608

\* A buffer Put with exactly 8 MiB has come back from Get, after another was
\* turned away.
C14_Witness ==
    /\ pool.lastGet.id # 0
    /\ ~pool.lastGet.fresh
    /\ pool.lastGet.putCap = 8388608
    /\ \E i \in 1..MaxBuffers : pool.bufs[i].putCap = 8388609

\* C15 as stated: whatever buffers were Put, every buffer Get returns has
\* empty content and a capacity of at least initialBufferSize (512).
C15_GetEmptyAndAtLeastInitialSize ==
    (pool.lastGet.id # 0) =>
        /\ pool.lastGet.len = 0
        /\ pool.lastGet.cap >= 512

\* C15 amended: every buffer Get returns has empty content; a fresh one has
\* capacity 512 and a recycled one the capacity it was Put with, so the
\* capacity is below 512 only for a buffer that was Put with less than 512.
C15_GetEmptyCapacityAsPut ==
    (pool.lastGet.id # 0) =>
        /\ pool.lastGet.len = 0
        /\ pool.lastGet.fresh => pool.lastGet.cap = 512
        /\ ~pool.lastGet.fresh =>
              /\ pool.lastGet.cap = pool.lastGet.putCap
              /\ pool.lastGet.putCap > 0
        /\ (pool.lastGet.cap < 512) => (~pool.lastGet.fresh /\ pool.lastGet.putCap < 512)

\* A buffer written to and grown by its caller has come back from Get, empty.
C15_Witness ==
    /\ pool.lastGet.id # 0
    /\ ~pool.lastGet.fresh
    /\ pool.lastGet.len = 0
    /\ pool.lastGet.cap = 8388608
    /\ \E i \in 1..MaxBuffers : pool.bufs[i].where = "held" /\ pool.bufs[i].len = 64

----------------------------------------------------------------------------
(* Properties of the implementations *)

isUnary == handler.implementation.kind = StreamTypeUnary

\* Positions in a history of the calls one party made of one operation.
CallsBy(tr, op, who) == {i \in Calls(tr, op) : tr[i].arg = who}

\* The implementation has returned err for this request.
ImplementationReturned(r, err) ==
    \E i \in Calls(trace[r], "implementationReturn") : trace[r][i].ret = err

\* Positions where the user's unary function returned a nil error.
UnarySucceeded(tr) ==
    {i \in 1..Len(tr) : tr[i].op = "unary" /\ tr[i].ret = "nil"}

\* Positions where the interceptor's wrapper returned a response of its own,
\* with a nil error, without calling the user's unary function.
InterceptorAnswered(tr) ==
    {i \in 1..Len(tr) : tr[i].op = "WrapUnary" /\ tr[i].ret = "respond"}

\* Positions where Receive, the interceptor, the context check or the user's
\* unary function returned an error to the unary implementation.
UnaryFailed(tr) ==
    {i \in 1..Len(tr) :
        \/ tr[i].op \in {"Receive", "unary", "ctx.Err", "typeAssertion"} /\ tr[i].ret # "nil"
        \/ tr[i].op = "WrapUnary" /\ tr[i].ret = "reject"}

\* C16 as stated: the unary implementation calls conn.Send at most once per
\* request, and only after the user's unary function has returned a nil
\* error; when Receive, the interceptor chain or the user's function returned
\* an error, nothing is sent and that error is returned.
C16_SendOnlyAfterUserFunction ==
    \A r \in Reqs :
        LET tr == trace[r]
        IN isUnary =>
            /\ Cardinality(Calls(tr, "Send")) <= 1
            /\ \A i \in Calls(tr, "Send") :
                  /\ \E j \in UnarySucceeded(tr) : j < i
                  /\ UnaryFailed(tr) = {}
            /\ \A j \in UnaryFailed(tr) :
                  /\ Calls(tr, "Send") = {}
                  /\ j < Len(tr)
                  /\ tr[j + 1].op = "implementationReturn"

\* C16: the unary implementation calls conn.Send at most once per request,
\* and only after the function it calls returned a nil error: the user's
\* unary function, or, in a handler with an interceptor, the interceptor's
\* wrapper answering in its place without calling it.  Without an
\* interceptor every Send follows a nil return of the user's function.  When
\* Receive, the interceptor chain or the user's function returned an error,
\* nothing is sent and that error (Internal for a substituted request
\* envelope) is what the implementation returns and Close receives.
C16_UnaryAtMostOneSendAfterSuccess ==
    \A r \in Reqs :
        LET tr == trace[r]
        IN isUnary =>
            /\ Cardinality(CallsBy(tr, "Send", "implementation")) <= 1
            /\ CallsBy(tr, "Send", "user") = {}
            /\ InterceptorAnswered(tr) # {} =>
                  /\ handler.implementation.interceptor
                  /\ Calls(tr, "unary") = {}
            /\ \A i \in Calls(tr, "Send") :
                  /\ \/ \E j \in UnarySucceeded(tr) : j < i
                     \/ \E j \in InterceptorAnswered(tr) : j < i
                  /\ UnaryFailed(tr) = {}
            /\ \A j \in UnaryFailed(tr) :
                  /\ Calls(tr, "Send") = {}
                  /\ Len(impl[r].stream.sent) = 0
                  /\ j < Len(tr)
                  /\ tr[j + 1].op = "implementationReturn"
                  /\ tr[j + 1].ret =
                        (IF tr[j].op = "WrapUnary" THEN "errInterceptor" ELSE tr[j].ret)
                  /\ \A k \in Calls(tr, "Close") : tr[k].arg = tr[j + 1].ret
            /\ Len(impl[r].stream.sent) <= 1

\* An interceptor answered in the user's place and its response was sent.
C16_Witness ==
    \E r \in Reqs :
        /\ isUnary
        /\ frame[r].pc = "done"
        /\ InterceptorAnswered(trace[r]) # {}
        /\ Calls(trace[r], "unary") = {}
        /\ \E i \in CallsBy(trace[r], "Send", "implementation") : trace[r][i].ret = "nil"
        /\ impl[r].stream.sent = <<"res">>

\* Positions where the unary implementation's Receive succeeded with the
\* context already cancelled.
ReceivedWithCtxDone(tr) ==
    {i \in CallsBy(tr, "Receive", "implementation") :
        tr[i].ret = "nil" /\ tr[i].ctx = "done"}

\* C17 as stated: in a unary handler with an interceptor, when the context is
\* already cancelled once the request message has been received, neither the
\* interceptor's wrapper nor the user's unary function runs, and the context's
\* error is the terminal status.
C17_CtxCheckedBeforeInterceptor ==
    \A r \in Reqs :
        LET tr == trace[r]
        IN (isUnary /\ handler.implementation.interceptor) =>
            \A i \in ReceivedWithCtxDone(tr) :
                /\ Calls(tr, "WrapUnary") = {}
                /\ Calls(tr, "unary") = {}
                /\ \A k \in Calls(tr, "implementationReturn") : tr[k].ret = "errCtx"

\* C17: in a unary handler with an interceptor, the context is checked inside
\* the function the interceptor wraps.  When the context is already cancelled
\* once the request message has been received, the interceptor's wrapper runs
\* first, the user's unary function never runs, and if the wrapper calls
\* through, the context's error is returned and is the terminal status Close
\* receives; a wrapper that does not call through decides the status itself.
\* Whenever the check is made, after the wrapper was entered, it returns the
\* context's error exactly when the context is cancelled at that moment, and
\* the user's function runs only after a check that found none.
C17_CtxCheckedInsideInterceptor ==
    \A r \in Reqs :
        LET tr == trace[r]
        IN (isUnary /\ handler.implementation.interceptor) =>
            /\ \A i \in ReceivedWithCtxDone(tr) :
                  /\ Calls(tr, "unary") = {}
                  /\ i < Len(tr) => tr[i + 1].op = "WrapUnary"
                  /\ \A w \in Calls(tr, "WrapUnary") :
                        (tr[w].ret \in {"pass", "substitute"} /\ w < Len(tr)) =>
                            /\ tr[w + 1].op = "ctx.Err"
                            /\ tr[w + 1].ret = "errCtx"
                            /\ tr[w + 2].op = "implementationReturn"
                            /\ tr[w + 2].ret = "errCtx"
                            /\ \A k \in Calls(tr, "Close") : tr[k].arg = "errCtx"
            /\ \A c \in Calls(tr, "ctx.Err") :
                  /\ c > 1 /\ tr[c - 1].op = "WrapUnary"
                  /\ tr[c].ret = (IF tr[c].ctx = "done" THEN "errCtx" ELSE "nil")
                  /\ tr[c].ret # "nil" =>
                        /\ Calls(tr, "unary") = {}
                        /\ tr[c + 1].op = "implementationReturn"
                        /\ tr[c + 1].ret = tr[c].ret
            /\ \A u \in Calls(tr, "unary") :
                  \E c \in Calls(tr, "ctx.Err") : c < u /\ tr[c].ret = "nil"

C17_Witness ==
    \E r \in Reqs :
        /\ isUnary
        /\ handler.implementation.interceptor
        /\ frame[r].pc = "done"
        /\ ReceivedWithCtxDone(trace[r]) # {}
        /\ \E w \in Calls(trace[r], "WrapUnary") : trace[r][w].ret = "pass"
        /\ \E k \in Calls(trace[r], "Close") : trace[r][k].arg = "errCtx"

\* The handlers whose implementation sends the user's single Response.
sendsResponse == handler.implementation.kind \in {StreamTypeUnary, StreamTypeClient}

\* Positions where the user's unary or client-streaming function returned an
\* error.
UserFailed(tr) ==
    {i \in 1..Len(tr) : tr[i].op \in {"unary", "userReturn"} /\ tr[i].ret # "nil"}

\* C19: in the unary and client-streaming handlers the Response's headers and
\* trailers are merged into the connection's maps immediately before the one
\* Send of the payload, never after it, so a Send that succeeds commits them;
\* when the user's function returned an error, nothing is merged and nothing
\* is sent.
C19_MergeBeforeSingleSend ==
    \A r \in Reqs :
        LET tr == trace[r]
            stream == impl[r].stream
            response == impl[r].response
        IN sendsResponse =>
            /\ Cardinality(Calls(tr, "Send")) <= 1
            /\ \A i \in Calls(tr, "Send") :
                  /\ i > 2
                  /\ tr[i - 2].op = "mergeHeaders" /\ tr[i - 2].ret = "header"
                  /\ tr[i - 1].op = "mergeHeaders" /\ tr[i - 1].ret = "trailer"
                  /\ Cardinality(Calls(tr, "mergeHeaders")) = 2
                  /\ response.header \subseteq stream.responseHeader
                  /\ response.trailer \subseteq stream.responseTrailer
                  /\ tr[i].ret = "nil" =>
                        /\ stream.committed
                        /\ stream.sent = <<response.Msg>>
                        /\ response.header \subseteq stream.wireHeader
                        /\ stream.wireHeader = stream.responseHeader
            /\ \A m \in Calls(tr, "mergeHeaders") : \E i \in Calls(tr, "Send") : m < i
            /\ (impl[r].pc = "returned" /\ ~response.isNil) => Calls(tr, "Send") # {}
            /\ \A u \in UserFailed(tr) :
                  /\ Calls(tr, "mergeHeaders") = {}
                  /\ Calls(tr, "Send") = {}
                  /\ stream = NewStream

C19_Witness ==
    \E r \in Reqs :
        /\ handler.implementation.kind = StreamTypeClient
        /\ frame[r].pc = "done"
        /\ impl[r].response.header = {"x-header"}
        /\ "x-header" \in impl[r].stream.wireHeader
        /\ "x-trailer" \in impl[r].stream.responseTrailer
        /\ \E i \in Calls(trace[r], "Send") : trace[r][i].ret = "nil"

\* C20: the unary and server-streaming implementations call conn.Receive
\* exactly once, before the user's function is invoked, and never again
\* themselves; when that Receive returns an error the user's function (and
\* the unary interceptor around it) is not invoked, and the same error is what
\* the implementation returns and Close receives.
C20_ReceiveOnceBeforeUser ==
    \A r \in Reqs :
        LET tr == trace[r]
            receives == CallsBy(tr, "Receive", "implementation")
            userCalls == Calls(tr, "unary") \cup Calls(tr, "userCall")
                            \cup Calls(tr, "WrapUnary")
        IN receivesFirst(handler.implementation.kind) =>
            /\ Cardinality(receives) <= 1
            /\ \A u \in userCalls \cup Calls(tr, "implementationReturn") :
                  \/ \E i \in receives : i < u
                  \/ \E w \in Calls(tr, "WrapStreamingHandler") : tr[w].ret = "reject"
            /\ \A u \in userCalls : \E i \in receives : i < u /\ tr[i].ret = "nil"
            /\ \A i \in receives :
                  tr[i].ret # "nil" =>
                      /\ userCalls = {}
                      /\ CallsBy(tr, "Send", "user") = {}
                      /\ i < Len(tr)
                      /\ tr[i + 1].op = "implementationReturn"
                      /\ tr[i + 1].ret = tr[i].ret
                      /\ \A k \in Calls(tr, "Close") : tr[k].arg = tr[i].ret

C20_Witness ==
    \E r \in Reqs :
        /\ handler.implementation.kind = StreamTypeServer
        /\ frame[r].pc = "done"
        /\ \E i \in CallsBy(trace[r], "Receive", "implementation") :
              trace[r][i].ret = "errReceive"
        /\ \E k \in Calls(trace[r], "Close") : trace[r][k].arg = "errReceive"

----------------------------------------------------------------------------
(* Properties of concurrent ServeHTTP calls *)

\* The status ServeHTTP answers a request with, from the Handler and that
\* request alone (0: none, the request is served).
expectedStatus(h, req) ==
    LET ct == canonicalizeContentType(req.sent)
    IN IF h.spec.StreamType = StreamTypeBidi /\ req.ProtoMajor < 2
       THEN StatusHTTPVersionNotSupported
       ELSE IF req.Method # "POST" THEN StatusMethodNotAllowed
       ELSE IF \A i \in 1..Len(h.protocolHandlers) : ct \notin h.protocolHandlers[i].contentTypes
       THEN StatusUnsupportedMediaType
       ELSE 0

\* What one call keeps in its own locals, request and response writer.
callState(r) == <<request[r], responseWriter[r], frame[r], trace[r]>>

\* The outcome of request r is the one its own inputs give: the status, the
\* adapter, and whether the implementation and Close run.
OutcomeFromOwnRequest(r) ==
    LET tr == trace[r]
        phs == handler.protocolHandlers
        ct == canonicalizeContentType(request[r].sent)
        status == expectedStatus(handler, request[r])
    IN frame[r].pc \notin {"idle", "gate"} =>
        /\ responseWriter[r].status = (IF status = 0 THEN <<>> ELSE <<status>>)
        /\ status # 0 => (tr = <<>> /\ frame[r].pc = "done")
        /\ status = 0 =>
              /\ ct \in phs[frame[r].protocolHandler].contentTypes
              /\ \A k \in 1..(frame[r].protocolHandler - 1) : ct \notin phs[k].contentTypes
              /\ \A e \in 1..Len(tr) :
                    tr[e].op \in {"SetTimeout", "NewConn", "Close"} =>
                        tr[e].adapter = frame[r].protocolHandler
              /\ NumCalls(tr, "implementation") =
                    (IF StreamConstructed(r) /\ ~TimeoutErrCaptured(r)
                        /\ frame[r].pc # "implementation"
                     THEN 1 ELSE 0)
              /\ Exited(r) =>
                    NumCalls(tr, "Close") =
                        (IF StreamConstructed(r) /\ frame[r].pc = "done" THEN 1 ELSE 0)

\* C18: whatever the interleaving of concurrent ServeHTTP calls on one
\* Handler, no step writes the Handler's spec, implementation, adapter list or
\* Accept-Post value; a step of one call changes nothing of another call; and
\* each request's outcome (status written, adapter selected, whether the
\* implementation and Close run) is the one the Handler and that request give.
C18_HandlerImmutableRequestsIndependent ==
    /\ [][handler' = handler]_vars
    /\ [][\A r, q \in ConcReqs :
             (r # q /\ callState(q)' # callState(q)) => callState(r)' = callState(r)]_vars
    /\ [](\A r \in ConcReqs : OutcomeFromOwnRequest(r))

C18_Witness ==
    /\ DOMAIN frame = ConcReqs
    /\ frame["r1"].pc = "inImplementation"
    /\ frame["r1"].protocolHandler = 2
    /\ frame["r2"].pc = "closeImplementation"
    /\ frame["r2"].protocolHandler = 2
    /\ request["r1"].ProtoMajor # request["r2"].ProtoMajor
    /\ Len(trace["r2"]) > Len(trace["r1"])

----------------------------------------------------------------------------
(* What ServeHTTP itself writes *)

\* The statuses of the three rejection paths.
RejectionStatuses ==
    {StatusHTTPVersionNotSupported, StatusMethodNotAllowed, StatusUnsupportedMediaType}

\* C21: ServeHTTP itself writes a status at most once per request, and only
\* 505, 405 or 415; a request it rejects keeps the Content-Type it came with
\* and reaches no SetTimeout, NewConn or implementation; once NewConn has been
\* called ServeHTTP has written, and writes, nothing to the response writer;
\* and the Content-Type is replaced by its canonical form exactly when an
\* adapter has been selected, so that SetTimeout and NewConn both see the
\* canonical value.
C21_ServeHTTPWritesOnlyRejections ==
    \A r \in Reqs :
        LET tr == trace[r]
            status == responseWriter[r].status
            canonical == canonicalizeContentType(request[r].sent)
        IN /\ Len(status) <= 1
           /\ \A i \in 1..Len(status) : status[i] \in RejectionStatuses
           /\ status # <<>> =>
                 /\ request[r].ContentType = request[r].sent
                 /\ tr = <<>>
                 /\ frame[r].protocolHandler = 0
                 /\ frame[r].pc = "done"
           /\ ~WroteNothing(r) => status # <<>>
           /\ Calls(tr, "NewConn") # {} => WroteNothing(r)
           /\ request[r].ContentType =
                 (IF frame[r].protocolHandler # 0 THEN canonical ELSE request[r].sent)
           /\ \A e \in Calls(tr, "SetTimeout") \cup Calls(tr, "NewConn") :
                 /\ frame[r].protocolHandler # 0
                 /\ tr[e].adapter = frame[r].protocolHandler
                 /\ tr[e].ct = canonical
           /\ Calls(tr, "implementation") # {} => Calls(tr, "NewConn") # {}

C21_Witness ==
    \E r \in Reqs :
        /\ frame[r].pc = "done"
        /\ request[r].sent = <<"A", "/", "W">>
        /\ request[r].ContentType = ctGRPCWeb
        /\ \E e \in Calls(trace[r], "NewConn") :
              trace[r][e].ct = ctGRPCWeb /\ trace[r][e].ret = "ok"
        /\ NumCalls(trace[r], "Close") = 1
        /\ WroteNothing(r)

----------------------------------------------------------------------------
(* A nil Response with a nil error *)

\* The user's unary or client-streaming function has returned (nil, nil).
ReturnedNilResponse(r) ==
    /\ sendsResponse
    /\ impl[r].response.isNil
    /\ \E i \in 1..Len(trace[r]) :
          trace[r][i].op \in {"unary", "userReturn"} /\ trace[r][i].ret = "nil"

\* C22: when the user's unary or client-streaming function returns a nil
\* Response with a nil error, the handler does not fault while merging headers
\* or sending, and by the time ServeHTTP exits the stream has been closed
\* exactly once with a terminal status.
C22_NilResponseStillClosed ==
    \A r \in Reqs :
        ReturnedNilResponse(r) =>
            /\ frame[r].panic = "nil"
            /\ impl[r].pc # "panicked"
            /\ Exited(r) =>
                  /\ frame[r].pc = "done"
                  /\ NumCalls(trace[r], "Close") = 1

============================================================================
